---- MODULE Spec2Model ----
(***************************************************************************)
(* Model of main.py of 5symbols: the Rule class (the constraint set), the  *)
(* module-level game state (all_words, matched_words, symbols_counter,     *)
(* found_symbols) and the round loop of main / game_step.                  *)
(*                                                                         *)
(* A word is a tuple of one-character strings.  Python positions are       *)
(* 0-based, TLA+ tuples 1-based: At(w, position) is w[position] of the     *)
(* source.  The float weights of need_check are kept in hundredths         *)
(* (1.0 -> 100, 0.1 -> 10, 0.07 -> 7), so rank_word is 100 times the       *)
(* source's value and is an integer.                                       *)
(*                                                                         *)
(* Specifications: Spec (games on corpora of Lexicon words, a round per    *)
(* step), SpecSample (the game on the corpus Sample), SpecFine (the same,  *)
(* a round taken statement by statement, with Ctrl-C), SpecLoad (files     *)
(* with lines of any length), SpecWide (a corpus over fifteen symbols).    *)
(***************************************************************************)
EXTENDS Integers, Sequences, FiniteSets, TLC

VARIABLES all_words, matched_words, symbols_counter, found_symbols,
          rule, word, result, pc, recorded,
          reported,   \* read_file printed its error message
          answer,     \* what the last call of rule.matches returned
          todo,       \* apply_rule: the candidates the comprehension has yet to visit
          building,   \* apply_rule: the set the comprehension has built so far
          before      \* the candidates when the round began

\* The variables only the finer specifications below use.
local == <<answer, todo, building, before>>

vars == <<all_words, matched_words, symbols_counter, found_symbols,
          rule, word, result, pc, recorded, reported, local>>

\* ---------------------------------------------------------------- bounds
\* Longest corpus read_file is given.
MaxCorpus == 3

\* ------------------------------------------------------------- constants
TOTAL_SYMBOLS == 5

\* get_top_words(10, rule) in choose_next_word.
TopCount == 10

\* len(matched_words) <= 5 in choose_next_word.
FewWords == 5

\* len(matched_words) < 2 in game_step.
MinWords == 2

Alphabet == {"a", "b", "c"}

\* Every 5-symbol word over the alphabet.
Words == [1 .. TOTAL_SYMBOLS -> Alphabet]

\* The words a corpus file of the model may hold, one per line.  Each has a
\* repeated symbol; any two agree at position 0 only, so a guess of one with
\* feedback '=++++' leaves the other two as candidates and a game can go on
\* for several rounds; with no rule recorded the three score the same.
Lexicon == { <<"a", "b", "c", "a", "b">>,
             <<"a", "c", "a", "b", "c">>,
             <<"a", "a", "b", "c", "a">> }

\* The feedback strings input_with_validation lets through in game_step.
Feedback == [1 .. TOTAL_SYMBOLS -> {"-", "+", "="}]

\* ----------------------------------------------------------- Python glue
At(w, position) == w[position + 1]

Range(s) == { s[i] : i \in DOMAIN s }

\* symbol in word
In(symbol, w) == \E i \in DOMAIN w : w[i] = symbol

\* d[key].add(value) on a defaultdict(set)
DictAdd(d, key, value) ==
    [k \in (DOMAIN d) \cup {key} |->
        IF k = key
        THEN (IF key \in DOMAIN d THEN d[key] ELSE {}) \cup {value}
        ELSE d[k]]

\* Counter()[key]: 0 for a missing key
CounterGet(c, key) == IF key \in DOMAIN c THEN c[key] ELSE 0

EmptyDict == [k \in {} |-> {}]

\* ------------------------------------------------------------------ Rule
\* Rule.__init__
NewRule == [exists |-> EmptyDict, match |-> EmptyDict, not_exists |-> {}]

\* Mutant: the new excluded position replaces the recorded ones
\* (self._exists[symbol] = {not_matched_position}).
add_exists_rule_overwrite(r, symbol, not_matched_position) ==
    [r EXCEPT !.exists =
        [k \in (DOMAIN r.exists) \cup {symbol} |->
            IF k = symbol THEN {not_matched_position} ELSE r.exists[k]]]

add_exists_rule(r, symbol, not_matched_position) ==
    [r EXCEPT !.exists = DictAdd(r.exists, symbol, not_matched_position)]

\* Mutant: the new position replaces the recorded ones
\* (self._match[symbol] = {matched_position}).
add_match_rule_overwrite(r, symbol, matched_position) ==
    [r EXCEPT !.match =
        [k \in (DOMAIN r.match) \cup {symbol} |->
            IF k = symbol THEN {matched_position} ELSE r.match[k]]]

\* Mutant: one required symbol per position; the new requirement takes the
\* position away from the symbols that held it.
add_match_rule_replace(r, symbol, matched_position) ==
    [r EXCEPT !.match =
        [k \in (DOMAIN r.match) \cup {symbol} |->
            IF k = symbol
            THEN (IF symbol \in DOMAIN r.match THEN r.match[symbol] ELSE {})
                     \cup {matched_position}
            ELSE r.match[k] \ {matched_position}]]

add_match_rule(r, symbol, matched_position) ==
    [r EXCEPT !.match = DictAdd(r.match, symbol, matched_position)]

add_not_exists_rule(r, symbol) ==
    [r EXCEPT !.not_exists = r.not_exists \cup {symbol}]

\* Mutant: a word is rejected for holding a present symbol at all, whatever
\* the position.
matches_exists_anywhere(r, w) ==
    /\ \A symbol \in DOMAIN r.match :
          ~ \E position \in r.match[symbol] : At(w, position) # symbol
    /\ \A position \in 0 .. (Len(w) - 1) :
          LET symbol == At(w, position) IN
          /\ symbol \notin r.not_exists
          /\ symbol \notin DOMAIN r.exists

\* Mutant: an absent symbol is let through once the symbol has an exact
\* position.
matches_found_first(r, w) ==
    /\ \A symbol \in DOMAIN r.match :
          ~ \E position \in r.match[symbol] : At(w, position) # symbol
    /\ \A position \in 0 .. (Len(w) - 1) :
          LET symbol == At(w, position) IN
          /\ (symbol \in r.not_exists => symbol \in DOMAIN r.match)
          /\ ~ ( /\ symbol \in DOMAIN r.exists
                 /\ \/ position \in r.exists[symbol]
                    \/ ~ In(symbol, w) )

\* Mutant: the excluded positions of a present symbol are not looked at.
matches_no_position(r, w) ==
    /\ \A symbol \in DOMAIN r.match :
          ~ \E position \in r.match[symbol] : At(w, position) # symbol
    /\ \A position \in 0 .. (Len(w) - 1) :
          LET symbol == At(w, position) IN
          /\ symbol \notin r.not_exists
          /\ ~ (symbol \in DOMAIN r.exists /\ ~ In(symbol, w))

matches(r, w) ==
    /\ \A symbol \in DOMAIN r.match :
          ~ \E position \in r.match[symbol] : At(w, position) # symbol
    /\ \A position \in 0 .. (Len(w) - 1) :
          LET symbol == At(w, position) IN
          /\ symbol \notin r.not_exists
          /\ ~ ( /\ symbol \in DOMAIN r.exists
                 /\ \/ position \in r.exists[symbol]
                    \/ ~ In(symbol, w) )

\* The dict after the lookup d[key] on a defaultdict(set): a missing key is
\* inserted with an empty set.
Lookup(d, key) ==
    IF key \in DOMAIN d THEN d
    ELSE [k \in (DOMAIN d) \cup {key} |-> IF k = key THEN {} ELSE d[k]]

RECURSIVE MatchesLoop_unguarded(_, _, _)
\* Mutant: self._exists[symbol] is looked up without asking first whether the
\* symbol is a key.
MatchesLoop_unguarded(r, w, position) ==
    IF position >= Len(w) THEN [answer |-> "True", rule |-> r]
    ELSE LET symbol == At(w, position)
             r2 == [r EXCEPT !.exists = Lookup(r.exists, symbol)]
         IN  IF symbol \in r.not_exists
             THEN [answer |-> "False", rule |-> r]
             ELSE IF position \in r2.exists[symbol]
                  THEN [answer |-> "False", rule |-> r2]
                  ELSE MatchesLoop_unguarded(r2, w, position + 1)

RECURSIVE MatchesLoop(_, _, _)
\* The second loop of Rule.matches from position on, with what its lookups
\* do to the defaultdicts: the answer and the rule after the call.
MatchesLoop(r, w, position) ==
    IF position >= Len(w) THEN [answer |-> "True", rule |-> r]
    ELSE LET symbol == At(w, position)
             r2 == [r EXCEPT !.exists = Lookup(r.exists, symbol)]
         IN  IF symbol \in r.not_exists
             THEN [answer |-> "False", rule |-> r]
             ELSE IF symbol \in DOMAIN r.exists
                  THEN IF position \in r2.exists[symbol] \/ ~ In(symbol, w)
                       THEN [answer |-> "False", rule |-> r2]
                       ELSE MatchesLoop(r2, w, position + 1)
                  ELSE MatchesLoop(r, w, position + 1)

\* A call of Rule.matches as the interpreter runs it: the first loop walks
\* self._match.items() and looks nothing up.
matches_call(r, w) ==
    IF \E symbol \in DOMAIN r.match :
           \E position \in r.match[symbol] : At(w, position) # symbol
    THEN [answer |-> "False", rule |-> r]
    ELSE MatchesLoop(r, w, 0)

\* In hundredths.
need_check(r, symbol, position, found) ==
    IF \/ symbol \in r.not_exists
       \/ (symbol \in DOMAIN r.exists /\ position \in r.exists[symbol])
    THEN 0
    ELSE IF symbol \in DOMAIN r.match /\ position \notin r.match[symbol]
    THEN (IF Cardinality(found) < TOTAL_SYMBOLS THEN 10 ELSE 0)
    ELSE 100 - 7 * Cardinality(found)

\* ------------------------------------------------------------ game state
RECURSIVE CountWord(_, _, _)
\* Counter.update(word): one more for every symbol of the word from i on
CountWord(c, w, i) ==
    IF i > Len(w) THEN c
    ELSE CountWord([k \in (DOMAIN c) \cup {w[i]} |->
                       CounterGet(c, k) + (IF k = w[i] THEN 1 ELSE 0)],
                   w, i + 1)

RECURSIVE CountWords(_, _)
\* the loop of update_symbols_counter over a set of words
CountWords(c, ws) ==
    IF ws = {} THEN c
    ELSE LET w == CHOOSE x \in ws : TRUE
         IN CountWords(CountWord(c, w, 1), ws \ {w})

\* Mutant: the counter is not cleared; the new counts are added to the old.
update_symbols_counter_no_clear(ws) == CountWords(symbols_counter, ws)

\* symbols_counter after update_symbols_counter(), matched_words being ws
update_symbols_counter(ws) == CountWords([k \in {} |-> 0], ws)

\* matched_words after apply_rule(rule)
apply_rule(r) == { w \in matched_words : matches(r, w) }

RECURSIVE RankLoop_every_occurrence(_, _, _, _, _)
\* Mutant: a repeated symbol is counted at every occurrence.
RankLoop_every_occurrence(w, r, position, checked, rank) ==
    IF position >= Len(w) THEN rank
    ELSE LET symbol == At(w, position) IN
         RankLoop_every_occurrence(w, r, position + 1, checked \cup {symbol},
             rank - need_check(r, symbol, position, found_symbols)
                    * CounterGet(symbols_counter, symbol))

RECURSIVE RankLoop(_, _, _, _, _)
\* the loop of rank_word from 0-based position on
RankLoop(w, r, position, checked, rank) ==
    IF position >= Len(w) THEN rank
    ELSE LET symbol == At(w, position) IN
         IF symbol \in checked
         THEN RankLoop(w, r, position + 1, checked, rank)
         ELSE RankLoop(w, r, position + 1, checked \cup {symbol},
                       rank - need_check(r, symbol, position, found_symbols)
                              * CounterGet(symbols_counter, symbol))

\* In hundredths.
rank_word(w, r) == RankLoop(w, r, 0, {}, 0)

RECURSIVE InsertSorted_unstable(_, _, _)
\* Mutant: x goes before the elements of equal key.
InsertSorted_unstable(s, x, keys) ==
    IF s = <<>> THEN <<x>>
    ELSE IF keys[x] <= keys[Head(s)]
         THEN <<x>> \o s
         ELSE <<Head(s)>> \o InsertSorted_unstable(Tail(s), x, keys)

RECURSIVE InsertSorted(_, _, _)
\* the index x goes behind every index whose key is not greater: a stable
\* insertion
InsertSorted(s, x, keys) ==
    IF s = <<>> THEN <<x>>
    ELSE IF keys[x] < keys[Head(s)]
         THEN <<x>> \o s
         ELSE <<Head(s)>> \o InsertSorted(Tail(s), x, keys)

RECURSIVE SortedFrom(_, _, _)
\* the indices up to Len(keys), from i on, inserted one after the other
SortedFrom(done, i, keys) ==
    IF i > Len(keys) THEN done
    ELSE SortedFrom(InsertSorted(done, i, keys), i + 1, keys)

RECURSIVE KeysFrom(_, _, _)
\* the keys of ws[i], ws[i + 1], ...: rank_word is called once per element
KeysFrom(ws, r, i) ==
    IF i > Len(ws) THEN <<>>
    ELSE <<rank_word(ws[i], r)>> \o KeysFrom(ws, r, i + 1)

RECURSIVE Pick(_, _, _)
\* the elements of ws in the order of the indices, from the k-th index on
Pick(ws, order, k) ==
    IF k > Len(order) THEN <<>>
    ELSE <<ws[order[k]]>> \o Pick(ws, order, k + 1)

\* sorted(ws, key = lambda word: rank_word(word, rule)): Python's sort is
\* stable
sorted(ws, r) == Pick(ws, SortedFrom(<<>>, 1, KeysFrom(ws, r, 1)), 1)

\* s[:n]
Prefix(s, n) == SubSeq(s, 1, IF n < Len(s) THEN n ELSE Len(s))

get_top_words(n, r) == Prefix(sorted(all_words, r), n)

RECURSIVE FoldResult_first_four(_, _, _, _)
\* Mutant: the loop over result stops before its last position.
FoldResult_first_four(r, w, res, position) ==
    IF position >= Len(res) - 1 THEN r
    ELSE LET symbol == At(res, position)
             r2 == IF symbol = "-" THEN add_not_exists_rule(r, At(w, position))
                   ELSE IF symbol = "+" THEN add_exists_rule(r, At(w, position), position)
                   ELSE IF symbol = "=" THEN add_match_rule(r, At(w, position), position)
                   ELSE r
         IN FoldResult_first_four(r2, w, res, position + 1)

RECURSIVE FoldResult(_, _, _, _)
\* the loop of update_rule over the positions of result, from position on
FoldResult(r, w, res, position) ==
    IF position >= Len(res) THEN r
    ELSE LET symbol == At(res, position)
             r2 == IF symbol = "-" THEN add_not_exists_rule(r, At(w, position))
                   ELSE IF symbol = "+" THEN add_exists_rule(r, At(w, position), position)
                   ELSE IF symbol = "=" THEN add_match_rule(r, At(w, position), position)
                   ELSE r
         IN FoldResult(r2, w, res, position + 1)

\* found_symbols after the loop of update_rule
FoundAfter(found, w, res) ==
    found \cup { At(w, position) : position \in
                   { p \in 0 .. (Len(res) - 1) : At(res, p) \in {"+", "="} } }

\* The calls of add_*_rule the loop of update_rule makes, as facts.
FactsOf(w, res) ==
    { [kind |-> At(res, position), symbol |-> At(w, position), position |-> position] :
        position \in 0 .. (Len(res) - 1) }

\* ---------------------------------------------------------------- actions
Init ==
    /\ all_words = <<>>
    /\ matched_words = {}
    /\ symbols_counter = [k \in {} |-> 0]
    /\ found_symbols = {}
    /\ rule = NewRule
    /\ word = <<>>
    /\ result = <<>>
    /\ pc = "start"
    /\ recorded = {}
    /\ reported = FALSE
    /\ answer = "none"
    /\ todo = {}
    /\ building = {}
    /\ before = {}

\* The corpus files of the model: up to MaxCorpus lines, each a Lexicon word.
Corpora == UNION { [1 .. n -> Lexicon] : n \in 0 .. MaxCorpus }

\* read_file(), the file found and holding one of the given word lists
read_file(files) ==
    /\ pc = "start"
    /\ \E words \in files :
          /\ all_words' = all_words \o words
          /\ matched_words' = matched_words \cup Range(words)
          /\ symbols_counter' = update_symbols_counter(matched_words')
    /\ pc' = "loop"
    /\ UNCHANGED <<found_symbols, rule, word, result, recorded, reported, local>>

ReadFile == read_file(Corpora)

\* Mutant: the FileNotFoundError is not caught and ends the program.
ReadFileNotFound_abort ==
    /\ pc = "start"
    /\ pc' = "aborted"
    /\ UNCHANGED <<all_words, matched_words, symbols_counter, found_symbols,
                   rule, word, result, recorded, reported, local>>

\* read_file(), FileNotFoundError: the message is printed and read_file
\* returns
ReadFileNotFound ==
    /\ pc = "start"
    /\ reported' = TRUE
    /\ pc' = "loop"
    /\ UNCHANGED <<all_words, matched_words, symbols_counter, found_symbols,
                   rule, word, result, recorded, local>>

\* Mutant: the game is over only when no candidate is left.
game_over_empty == matched_words = {}

\* len(matched_words) < 2 in game_step
game_over == Cardinality(matched_words) < MinWords

\* game_step: fewer than two candidates, game_step returns False and the
\* loop of main ends
GameOver ==
    /\ pc = "loop"
    /\ game_over
    /\ pc' = "done"
    /\ UNCHANGED <<all_words, matched_words, symbols_counter, found_symbols,
                   rule, word, result, recorded, reported, local>>

\* The words choose_next_word can return: list(matched_words)[0] is any
\* candidate (a set has no order of its own), top_words[index - 1] any of
\* the top words.
Choices ==
    (IF Cardinality(matched_words) <= FewWords THEN matched_words ELSE {})
    \cup Range(get_top_words(TopCount, rule))

\* Mutant: the candidates are filtered before the feedback is folded in.
update_rule_stale(w, res) ==
    /\ rule' = FoldResult(rule, w, res, 0)
    /\ found_symbols' = FoundAfter(found_symbols, w, res)
    /\ recorded' = recorded \cup FactsOf(w, res)
    /\ matched_words' = apply_rule(rule)
    /\ symbols_counter' = update_symbols_counter(matched_words')

\* Mutant: the whole corpus is filtered by the feedback of this round alone.
update_rule_fresh(w, res) ==
    /\ rule' = FoldResult(rule, w, res, 0)
    /\ found_symbols' = FoundAfter(found_symbols, w, res)
    /\ recorded' = recorded \cup FactsOf(w, res)
    /\ matched_words' = { x \in Range(all_words) :
                            matches(FoldResult(NewRule, w, res, 0), x) }
    /\ symbols_counter' = update_symbols_counter(matched_words')

\* update_rule(rule, word, result), with apply_rule and
\* update_symbols_counter at its end
update_rule(w, res) ==
    /\ rule' = FoldResult(rule, w, res, 0)
    /\ found_symbols' = FoundAfter(found_symbols, w, res)
    /\ recorded' = recorded \cup FactsOf(w, res)
    /\ matched_words' = apply_rule(rule')
    /\ symbols_counter' = update_symbols_counter(matched_words')

\* game_step: a round, the player answering with one of the given feedback
\* strings; it returns True and main calls it again
game_step(feedback) ==
    /\ pc = "loop"
    /\ ~ game_over
    /\ \E w \in Choices, res \in feedback :
          /\ word' = w
          /\ result' = res
          /\ update_rule(w, res)
    /\ UNCHANGED <<all_words, pc, reported, local>>

GameStep == game_step(Feedback)

Next ==
    \/ ReadFile
    \/ ReadFileNotFound
    \/ GameOver
    \/ GameStep

Spec == Init /\ [][Next]_vars

\* ------------------------------------------------- a game on a fixed corpus
\* A corpus file whose words do not all start alike: after the guess 'abcab'
\* with feedback '=++++' two candidates are left, and the top words still
\* offer 'bcabc', whose first symbol differs from the one just required.
Sample == << <<"a", "b", "c", "a", "b">>,
             <<"a", "c", "a", "b", "c">>,
             <<"a", "a", "b", "c", "a">>,
             <<"b", "c", "a", "b", "c">> >>

\* read_file(), the file holding the words of Sample
ReadSample == read_file({Sample})

NextSample ==
    \/ ReadSample
    \/ GameOver
    \/ GameStep

SpecSample == Init /\ [][NextSample]_vars

\* ------------------------------------------- a round, statement by statement
\* The same game on Sample with the steps of a round taken one at a time, so
\* that Ctrl-C can fall between any two of them.

\* game_step up to the call of update_rule: the guess is chosen and the
\* feedback read
ChooseWord ==
    /\ pc = "loop"
    /\ ~ game_over
    /\ \E w \in Choices, res \in Feedback :
          /\ word' = w
          /\ result' = res
    /\ before' = matched_words
    /\ pc' = "update"
    /\ UNCHANGED <<all_words, matched_words, symbols_counter, found_symbols,
                   rule, recorded, reported, answer, todo, building>>

\* update_rule: the loop over result; apply_rule is entered and its
\* comprehension starts to iterate over matched_words
FoldFeedback ==
    /\ pc = "update"
    /\ rule' = FoldResult(rule, word, result, 0)
    /\ found_symbols' = FoundAfter(found_symbols, word, result)
    /\ recorded' = recorded \cup FactsOf(word, result)
    /\ todo' = matched_words
    /\ building' = {}
    /\ pc' = "apply"
    /\ UNCHANGED <<all_words, matched_words, symbols_counter, word, result,
                   reported, answer, before>>

\* Mutant: apply_rule removes a rejected word from matched_words itself
\* (matched_words.discard(word)).
MatchWord_in_place ==
    /\ pc = "apply"
    /\ \E w \in todo :
          LET call == matches_call(rule, w) IN
          /\ rule' = call.rule
          /\ answer' = call.answer
          /\ building' = IF call.answer = "True" THEN building \cup {w} ELSE building
          /\ matched_words' = IF call.answer = "True" THEN matched_words
                              ELSE matched_words \ {w}
          /\ todo' = todo \ {w}
    /\ UNCHANGED <<all_words, symbols_counter, found_symbols,
                   word, result, pc, recorded, reported, before>>

\* apply_rule: the comprehension takes the next word (a set is iterated in
\* no order the program controls), calls rule.matches and keeps the word in
\* the set it is building
MatchWord ==
    /\ pc = "apply"
    /\ \E w \in todo :
          LET call == matches_call(rule, w) IN
          /\ rule' = call.rule
          /\ answer' = call.answer
          /\ building' = IF call.answer = "True" THEN building \cup {w} ELSE building
          /\ todo' = todo \ {w}
    /\ UNCHANGED <<all_words, matched_words, symbols_counter, found_symbols,
                   word, result, pc, recorded, reported, before>>

\* apply_rule: the comprehension is exhausted and the new set is bound to
\* matched_words
StoreWords ==
    /\ pc = "apply"
    /\ todo = {}
    /\ matched_words' = building
    /\ pc' = "count"
    /\ UNCHANGED <<all_words, symbols_counter, found_symbols, rule, word,
                   result, recorded, reported, local>>

\* update_rule: update_symbols_counter(); game_step returns True
CountSymbols ==
    /\ pc = "count"
    /\ symbols_counter' = update_symbols_counter(matched_words)
    /\ pc' = "loop"
    /\ UNCHANGED <<all_words, matched_words, found_symbols, rule, word,
                   result, recorded, reported, local>>

\* main: KeyboardInterrupt inside the try block; the handler prints
\* matched_words and the program ends
Interrupt ==
    /\ pc \in {"loop", "update", "apply", "count"}
    /\ pc' = "interrupted"
    /\ UNCHANGED <<all_words, matched_words, symbols_counter, found_symbols,
                   rule, word, result, recorded, reported, local>>

NextFine ==
    \/ ReadSample
    \/ GameOver
    \/ ChooseWord
    \/ FoldFeedback
    \/ MatchWord
    \/ StoreWords
    \/ CountSymbols
    \/ Interrupt

SpecFine == Init /\ [][NextFine]_vars

\* ------------------------------------------------------ loading the corpus
\* What str.strip() removes at both ends.
Whitespace == {" ", "\t", "\n", "\r"}

RECURSIVE lstrip(_)
lstrip(s) ==
    IF s # <<>> /\ Head(s) \in Whitespace THEN lstrip(Tail(s)) ELSE s

RECURSIVE rstrip(_)
rstrip(s) ==
    IF s # <<>> /\ s[Len(s)] \in Whitespace
    THEN rstrip(SubSeq(s, 1, Len(s) - 1))
    ELSE s

\* line.strip()
strip(s) == rstrip(lstrip(s))

RECURSIVE StripLines(_, _)
\* [line.strip() for line in file], from line i on
StripLines(lines, i) ==
    IF i > Len(lines) THEN <<>>
    ELSE <<strip(lines[i])>> \o StripLines(lines, i + 1)

\* The lines a words file of the model may hold, as iterating over the file
\* yields them: words of five symbols, with or without blanks around them and
\* with or without the final line end, a blank line, a shorter and a longer
\* line.
Lines == { <<"a", "b", "c", "a", "b", "\n">>,
           <<" ", "a", "c", "a", "b", "c", " ", "\n">>,
           <<"a", "a", "b", "c", "a">>,
           <<"\n">>,
           <<"a", "b", "\n">>,
           <<"a", "b", "c", "a", "b", "c", "\n">> }

\* The words files of the model: up to MaxCorpus lines.
Files == UNION { [1 .. n -> Lines] : n \in 0 .. MaxCorpus }

\* read_file(), the file found: every line is stripped and kept
ReadLines == read_file({ StripLines(lines, 1) : lines \in Files })

NextLoad ==
    \/ ReadLines
    \/ ReadFileNotFound
    \/ GameOver

SpecLoad == Init /\ [][NextLoad]_vars

\* ------------------------------------------------ a game over many symbols
\* A corpus file over fifteen symbols: three words that share no symbol, and
\* two rotations of the first, which keep no symbol at its place.
Wide == << <<"a", "b", "c", "d", "e">>,
           <<"f", "g", "h", "i", "j">>,
           <<"k", "l", "m", "n", "o">>,
           <<"b", "c", "d", "e", "a">>,
           <<"c", "d", "e", "a", "b">> >>

\* read_file(), the file holding the words of Wide
ReadWide == read_file({Wide})

\* The feedback strings of this game: one mark throughout, or the first
\* symbol exact and the others present.
WideFeedback ==
    { [i \in 1 .. TOTAL_SYMBOLS |-> mark] : mark \in {"-", "+", "="} }
        \cup { [i \in 1 .. TOTAL_SYMBOLS |-> IF i = 1 THEN "=" ELSE "+"] }

\* game_step: a round answered with one of WideFeedback
WideStep == game_step(WideFeedback)

NextWide ==
    \/ ReadWide
    \/ GameOver
    \/ WideStep

SpecWide == Init /\ [][NextWide]_vars

\* ---------------------------------------------------------------- claims
\* The words matches accepts under the rule of the current state.
Accepted == { w \in Words : matches(rule, w) }

AllAbsent == [i \in 1 .. TOTAL_SYMBOLS |-> "-"]

\* A step of the loop of main in which game_step plays a round.
Round == pc = "loop" /\ pc' = "loop"

\* Two facts about one position come from two rounds.
TwoRounds == \E f, g \in recorded : f.position = g.position /\ f # g

\* C1: once a present-misplaced fact (symbol, position) has been recorded,
\* matches rejects every 5-symbol word in which the symbol does not occur.
C1_PresenceRequired ==
    \A w \in Accepted : \A f \in recorded :
        f.kind = "+" => In(f.symbol, w)

\* C2: at every round boundary the candidate set is exactly the set of
\* corpus words that matches accepts under the rule accumulated so far.
C2_CandidatesConsistent ==
    pc \in {"loop", "done"} =>
        matched_words = { w \in Range(all_words) : matches(rule, w) }

C2_Witness ==
    /\ pc = "loop"
    /\ TwoRounds
    /\ matched_words # {}
    /\ matched_words # Range(all_words)

\* C3: no symbol recorded as exact or present-misplaced is also in the absent
\* set; in particular a symbol that got '=' or '+' at one position of a guess
\* and '-' at another is not absent after update_rule, and a word carrying it
\* at its exact position is not rejected merely for containing it.
C3_FoundNotAbsent ==
    /\ ((DOMAIN rule.match) \cup (DOMAIN rule.exists)) \cap rule.not_exists = {}
    /\ result # <<>> =>
          \A i, j \in 1 .. TOTAL_SYMBOLS :
              (word[i] = word[j] /\ result[i] \in {"=", "+"} /\ result[j] = "-")
                  => word[i] \notin rule.not_exists

\* C4: once an exact fact (position, symbol) has been recorded, matches
\* rejects every 5-symbol word that has another symbol at that position:
\* after every round, for every exact fact recorded in this or an earlier
\* round.
C4_ExactSound ==
    [][Round => \A w \in Words :
                   matches(rule', w) =>
                       \A f \in recorded' :
                           f.kind = "=" => At(w, f.position) = f.symbol]_vars

C4_Witness ==
    /\ \E f \in recorded : f.kind = "="
    /\ \E f \in recorded : f.kind # "="
    /\ TwoRounds
    /\ Accepted # {}

\* C5: once a symbol has been recorded absent, matches rejects every word
\* that contains it; after all-'-' feedback on a guess no candidate shares a
\* symbol with the guess.
C5_AbsentSound ==
    [][Round =>
         /\ \A w \in Words :
               matches(rule', w) =>
                   \A f \in recorded' : f.kind = "-" => ~ In(f.symbol, w)
         /\ result' = AllAbsent =>
               \A v \in matched_words' : \A i \in DOMAIN v : ~ In(v[i], word')]_vars

C5_Witness ==
    /\ result = AllAbsent
    /\ TwoRounds
    /\ \E v \in Range(all_words) : v # word /\ \E i \in DOMAIN v : In(v[i], word)
    /\ \E w \in Words : \E f \in recorded : f.kind = "-" /\ In(f.symbol, w)

\* C6: once a present-misplaced fact (symbol, position) has been recorded,
\* matches rejects every word that has the symbol at that position; the
\* guess itself is rejected once it got '+' at any position.
C6_MisplacedExcluded ==
    [][Round =>
         /\ \A w \in Words :
               matches(rule', w) =>
                   \A f \in recorded' :
                       f.kind = "+" => At(w, f.position) # f.symbol
         /\ (\E i \in DOMAIN result' : result'[i] = "+") =>
               (~ matches(rule', word') /\ word' \notin matched_words')]_vars

C6_Witness ==
    /\ result # <<>>
    /\ \E i \in DOMAIN result : result[i] = "+"
    /\ \A i \in DOMAIN result : result[i] # "-"
    /\ Cardinality(matched_words) >= 2
    /\ Accepted # {}

\* C7: the candidate set after a round is a subset of the candidate set
\* before it.
C7_MonotonicShrinkage ==
    [][pc = "loop" => matched_words' \subseteq matched_words]_vars

\* An eliminated word that the latest feedback alone would let back in.
C7_Witness ==
    /\ TwoRounds
    /\ matched_words # {}
    /\ \E v \in Range(all_words) \ matched_words :
          matches(FoldResult(NewRule, word, result, 0), v)

\* C8: a step of the loop is a round exactly when at least 2 candidates
\* remain; with fewer than 2 game_step returns False, the loop ends, and
\* nothing changes afterwards.
C8_RoundLoop ==
    [][ /\ (pc = "loop" /\ Cardinality(matched_words) >= 2) =>
              (pc' = "loop" /\ word' \in Range(all_words) /\ result' \in Feedback
                 /\ recorded' = recorded \cup FactsOf(word', result')
                 /\ rule' = FoldResult(rule, word', result', 0))
        /\ (pc = "loop" /\ Cardinality(matched_words) < 2) =>
              (pc' = "done"
                 /\ UNCHANGED <<all_words, matched_words, symbols_counter,
                                found_symbols, rule, recorded>>)
        /\ pc # "done" ]_vars

C8_Witness ==
    /\ pc = "done"
    /\ recorded # {}
    /\ Cardinality(matched_words) = 1

\* The score of the i-th corpus word: the negated sort key, in hundredths.
ScoreAt(i) == 0 - rank_word(all_words[i], rule)

RECURSIVE ScoresFrom(_)
\* <<ScoreAt(i), ScoreAt(i + 1), ...>>
ScoresFrom(i) ==
    IF i > Len(all_words) THEN <<>> ELSE <<ScoreAt(i)>> \o ScoresFrom(i + 1)

\* Whether the sequence of corpus indices is the corpus in descending score,
\* equal scores in corpus order.
IsRanking(order, score) ==
    /\ Len(order) = Len(all_words)
    /\ Range(order) = DOMAIN all_words
    /\ \A k \in 1 .. (Len(order) - 1) :
          \/ score[order[k]] > score[order[k + 1]]
          \/ (score[order[k]] = score[order[k + 1]] /\ order[k] < order[k + 1])

\* C9: get_top_words(n, rule) is the first n entries of the full corpus in
\* descending score, equal scores in corpus order; all of them when the
\* corpus has fewer than n words.
C9_RankingOrder ==
    pc = "loop" =>
        LET score == ScoresFrom(1)
            place == [i \in DOMAIN all_words |->
                        1 + Cardinality({ j \in DOMAIN all_words :
                                            \/ score[j] > score[i]
                                            \/ (score[j] = score[i] /\ j < i) })]
            order == [k \in DOMAIN all_words |->
                        CHOOSE i \in DOMAIN all_words : place[i] = k]
        IN /\ IsRanking(order, score)
           /\ \A n \in {1, 2, TopCount} :
                 LET top == get_top_words(n, rule) IN
                 /\ Len(top) = (IF n < Len(all_words) THEN n ELSE Len(all_words))
                 /\ \A k \in DOMAIN top : top[k] = all_words[order[k]]

C9_Witness ==
    /\ pc = "loop"
    /\ recorded # {}
    /\ Len(all_words) >= 3
    /\ \E i, j \in DOMAIN all_words :
          i < j /\ all_words[i] # all_words[j] /\ ScoreAt(i) = ScoreAt(j)
    /\ \E i, j \in DOMAIN all_words : ScoreAt(i) < ScoreAt(j) /\ i < j
    /\ \E k \in 1 .. 2 : get_top_words(2, rule)[k] \notin matched_words

\* table[position][symbol]: the candidates with the symbol at the position.
PositionTable(position, symbol) ==
    Cardinality({ v \in matched_words : At(v, position) = symbol })

\* The occurrences of the symbol in the candidates, at any position.
Occurrences(symbol) ==
    Cardinality({ o \in matched_words \X (1 .. TOTAL_SYMBOLS) : o[1][o[2]] = symbol })

\* 0-based position of the first occurrence of the symbol in the word.
FirstPosition(w, symbol) ==
    CHOOSE p \in 0 .. (Len(w) - 1) :
        /\ At(w, p) = symbol
        /\ \A q \in 0 .. (p - 1) : At(w, q) # symbol

PositionalContribution(w, symbol) ==
    PositionTable(FirstPosition(w, symbol), symbol)

WeightedContribution(w, symbol) ==
    need_check(rule, symbol, FirstPosition(w, symbol), found_symbols)
        * Occurrences(symbol)

RECURSIVE PositionalSum(_, _)
\* the sum of PositionalContribution over the symbols of the set
PositionalSum(symbols, w) ==
    IF symbols = {} THEN 0
    ELSE LET x == CHOOSE y \in symbols : TRUE
         IN PositionalContribution(w, x) + PositionalSum(symbols \ {x}, w)

RECURSIVE WeightedSum(_, _)
\* the sum of WeightedContribution over the symbols of the set
WeightedSum(symbols, w) ==
    IF symbols = {} THEN 0
    ELSE LET x == CHOOSE y \in symbols : TRUE
         IN WeightedContribution(w, x) + WeightedSum(symbols \ {x}, w)

\* C10 as stated: the score of a word is the sum, over the first occurrence
\* of each distinct symbol, of the number of candidates that have the symbol
\* at that same position.
C10_PositionalScore ==
    pc = "loop" =>
        \A w \in Range(all_words) :
            0 - rank_word(w, rule) = 100 * PositionalSum(Range(w), w)

\* C10 amended: the score of a word is the sum, over the first occurrence of
\* each distinct symbol, of need_check(symbol, position, found_symbols) times
\* the number of occurrences of the symbol, at any position, in the current
\* candidates.
C10_WeightedScore ==
    pc = "loop" =>
        \A w \in Range(all_words) \cup Lexicon :
            0 - rank_word(w, rule) = WeightedSum(Range(w), w)

C10_Witness ==
    /\ pc = "loop"
    /\ recorded # {}
    /\ found_symbols # {}
    /\ \E w \in Range(all_words) :
          /\ rank_word(w, rule) < 0
          /\ \E i, j \in DOMAIN w : i < j /\ w[i] = w[j]
                /\ need_check(rule, w[i], i - 1, found_symbols) # 0
                /\ need_check(rule, w[j], j - 1, found_symbols)
                     # need_check(rule, w[i], i - 1, found_symbols)

\* d2 holds every entry of d1: each key of d1 is a key of d2, with at least
\* the positions it had.
Extends(d1, d2) ==
    \A k \in DOMAIN d1 : k \in DOMAIN d2 /\ d1[k] \subseteq d2[k]

\* C11: across every step of a game each of the three parts of the rule
\* (exact positions, excluded positions, absent symbols) contains afterwards
\* what it contained before; no recorded fact is removed or replaced.
C11_ConstraintMonotone ==
    [][ /\ Extends(rule.match, rule'.match)
        /\ Extends(rule.exists, rule'.exists)
        /\ rule.not_exists \subseteq rule'.not_exists ]_vars

\* Two rounds have been played and each part holds a fact; some symbol has
\* two excluded positions.
C11_Witness ==
    /\ TwoRounds
    /\ rule.not_exists # {}
    /\ DOMAIN rule.match # {}
    /\ \E symbol \in DOMAIN rule.exists : Cardinality(rule.exists[symbol]) >= 2

\* The symbols the rule requires at a position.
RequiredAt(r, position) ==
    { symbol \in DOMAIN r.match : position \in r.match[symbol] }

\* C12, as stated: in every reachable state each position has at most one
\* required symbol (a later exact fact overwrites the earlier one).
C12_OnePerPosition ==
    \A position \in 0 .. (TOTAL_SYMBOLS - 1) :
        Cardinality(RequiredAt(rule, position)) <= 1

\* C12, amended: an exact fact recorded at a position that already requires
\* another symbol is added beside it; both symbols stay required there, and
\* from then on matches rejects every word.
C12_ExactKept ==
    [][ Round =>
          \A position \in 0 .. (TOTAL_SYMBOLS - 1) :
              LET s2 == At(word', position)
                  earlier == RequiredAt(rule, position) \ {s2}
              IN  (At(result', position) = "=" /\ earlier # {})
                      => /\ RequiredAt(rule', position) = earlier \cup {s2}
                         /\ \A w \in Words : ~ matches(rule', w)
                         /\ matched_words' = {} ]_vars

\* A round has recorded an exact fact at a position that required another
\* symbol: the position requires both.
C12_Witness ==
    \E position \in 0 .. (TOTAL_SYMBOLS - 1) :
        /\ result # <<>>
        /\ At(result, position) = "="
        /\ RequiredAt(rule, position) \ {At(word, position)} # {}
        /\ At(word, position) \in RequiredAt(rule, position)

\* C13: when the words file is not found, read_file reports it and returns;
\* the corpus and the candidate set stay empty, and the first game_step finds
\* fewer than two candidates and returns False: no guess is chosen and no
\* feedback is asked for.
C13_MissingCorpus ==
    /\ pc # "aborted"
    /\ reported =>
          /\ pc \in {"loop", "done"}
          /\ all_words = <<>>
          /\ matched_words = {}
          /\ (pc = "loop" => game_over)
          /\ word = <<>>
          /\ result = <<>>
          /\ recorded = {}

\* The file was not found and main has left its loop.
C13_Witness == reported /\ pc = "done"

\* The candidates when the current round began; before the first round, the
\* words read_file loaded.
RoundStart == IF word = <<>> THEN Range(all_words) ELSE before

\* C14: wherever Ctrl-C falls in the loop, the candidate set the handler
\* prints is the complete set the round began with or the complete set after
\* filtering by the rule, never a partly filtered set in between.
C14_InterruptSafe ==
    pc \in {"loop", "update", "apply", "count", "interrupted"} =>
        \/ matched_words = RoundStart
        \/ matched_words = { w \in RoundStart : matches(rule, w) }

\* Ctrl-C fell inside apply_rule after the comprehension had rejected one
\* word and before it had visited another that the rule rejects as well.
C14_Witness ==
    /\ pc = "interrupted"
    /\ building # before \ todo
    /\ \E w \in todo : ~ matches(rule, w)

\* A step in which apply_rule calls rule.matches on the next candidate.
MatchesCalled == pc = "apply" /\ todo' # todo

\* C15: a call of matches changes nothing: the three parts of the rule keep
\* their entries and their keys (no lookup adds a key), and the candidate set
\* and the corpus stay as they are; its answer is the one the rule determines,
\* however many calls came before it.
C15_MatchesPure ==
    [][ MatchesCalled =>
          /\ rule' = rule
          /\ DOMAIN rule'.exists = DOMAIN rule.exists
          /\ DOMAIN rule'.match = DOMAIN rule.match
          /\ matched_words' = matched_words
          /\ all_words' = all_words
          /\ \A w \in todo \ todo' :
                answer' = (IF matches(rule, w) THEN "True" ELSE "False") ]_vars

\* matches has answered False and then True within one filtering, the True
\* for a word none of whose symbols is a key of the excluded positions.
C15_Witness ==
    /\ pc = "apply"
    /\ answer = "True"
    /\ building # {}
    /\ building # before \ todo
    /\ \E w \in building : \E i \in DOMAIN w : w[i] \notin DOMAIN rule.exists

\* C16: after loading, every word of the corpus and of the candidate set has
\* exactly five symbols, and so has every word that reaches the ranking; a
\* line of another length, a blank line included, is not kept.
C16_WordLength ==
    pc \in {"loop", "done"} =>
        \A w \in Range(all_words) \cup matched_words
                 \cup Range(get_top_words(TopCount, rule)) :
            Len(w) = TOTAL_SYMBOLS

\* The positions a dict holds for a symbol; none for a symbol that is no key.
PositionsOf(d, symbol) == IF symbol \in DOMAIN d THEN d[symbol] ELSE {}

\* The positions at which the guess w carries the symbol and the feedback
\* res the mark.
Marked(w, res, symbol, mark) ==
    { position \in 0 .. (TOTAL_SYMBOLS - 1) :
        At(w, position) = symbol /\ At(res, position) = mark }

\* C17: a round records one fact per position of the feedback and nothing
\* else: '-' puts the guess's symbol into the absent set, '+' puts the
\* position among the excluded positions of the symbol, '=' among its exact
\* positions; a symbol gets an entry only through such a fact.  All five
\* positions are folded in before the candidates are filtered.
C17_FeedbackFolding ==
    [][ Round =>
          /\ \A symbol \in Alphabet :
                /\ symbol \in rule'.not_exists
                      <=> \/ symbol \in rule.not_exists
                          \/ Marked(word', result', symbol, "-") # {}
                /\ PositionsOf(rule'.exists, symbol)
                      = PositionsOf(rule.exists, symbol)
                            \cup Marked(word', result', symbol, "+")
                /\ PositionsOf(rule'.match, symbol)
                      = PositionsOf(rule.match, symbol)
                            \cup Marked(word', result', symbol, "=")
                /\ symbol \in DOMAIN rule'.exists
                      <=> \/ symbol \in DOMAIN rule.exists
                          \/ Marked(word', result', symbol, "+") # {}
                /\ symbol \in DOMAIN rule'.match
                      <=> \/ symbol \in DOMAIN rule.match
                          \/ Marked(word', result', symbol, "=") # {}
          /\ matched_words' = { w \in matched_words : matches(rule', w) } ]_vars

\* The feedback of the latest round held all three marks, the one at the last
\* position new to the rule of the round before, and the round eliminated a
\* candidate.
C17_Witness ==
    /\ TwoRounds
    /\ \A mark \in {"-", "+", "="} : \E i \in DOMAIN result : result[i] = mark
    /\ result[TOTAL_SYMBOLS] = "+"
    /\ Cardinality(PositionsOf(rule.exists, word[TOTAL_SYMBOLS])) >= 2
    /\ matched_words # Range(all_words)

\* The occurrences of the symbol in the words of the corpus.
CorpusOccurrences(symbol) ==
    Cardinality({ o \in Range(all_words) \X (1 .. TOTAL_SYMBOLS) :
                    o[1][o[2]] = symbol })

\* C18: whenever a round is about to rank its suggestions, symbols_counter
\* holds for every symbol the number of its occurrences in the words of the
\* current candidate set, and no entry for a symbol that occurs in none:
\* nothing is left of the counts of an earlier, larger candidate set.
C18_CounterFresh ==
    pc \in {"loop", "done"} =>
        \A symbol \in Alphabet :
            /\ CounterGet(symbols_counter, symbol) = Occurrences(symbol)
            /\ symbol \in DOMAIN symbols_counter => Occurrences(symbol) > 0

\* A further round is about to rank after a round that eliminated a corpus
\* word: some symbol now counts less than it did in the corpus.
C18_Witness ==
    /\ pc = "loop"
    /\ ~ game_over
    /\ recorded # {}
    /\ \E symbol \in Alphabet :
          /\ Occurrences(symbol) > 0
          /\ CounterGet(symbols_counter, symbol) < CorpusOccurrences(symbol)

\* The word meets the three documented conditions for the given facts: every
\* exact symbol at its position, every present symbol somewhere but not at
\* its excluded position, no absent symbol anywhere.
Documented(facts, w) ==
    \A f \in facts :
        /\ f.kind = "=" => At(w, f.position) = f.symbol
        /\ f.kind = "+" => (At(w, f.position) # f.symbol /\ In(f.symbol, w))
        /\ f.kind = "-" => ~ In(f.symbol, w)

\* C19: after any rounds, matches accepts every 5-symbol word that meets the
\* three documented conditions for the facts recorded so far; it rejects a
\* word only on one of the three documented grounds.
C19_NoOverRejection ==
    [][ Round =>
          \A w \in Words :
              Documented(recorded', w) => matches(rule', w) ]_vars

\* Facts of all three kinds are recorded and some word meets the documented
\* conditions for all of them.
C19_Witness ==
    /\ \A kind \in {"-", "+", "="} : \E f \in recorded : f.kind = kind
    /\ \E w \in Words : Documented(recorded, w)

\* C20: in every state of a game the weight need_check gives a symbol of a
\* corpus word lies between 0 and 1 (0 and 100 hundredths), and the sort key
\* rank_word computes is never positive.
C20_WeightsInRange ==
    pc = "loop" =>
        \A w \in Range(all_words) :
            /\ rank_word(w, rule) <= 0
            /\ \A position \in 0 .. (Len(w) - 1) :
                  LET weight == need_check(rule, At(w, position), position,
                                           found_symbols)
                  IN  0 <= weight /\ weight <= 100

====
